---- MODULE Spec2Model ----
(***************************************************************************)
(* A model of dm_control's autowrap BindingGenerator (the five symbol      *)
(* tables, the three parsing passes and the resolver) and of the viewer's  *)
(* DoubleClickDetector as exercised by base_test.py.                       *)
(*                                                                         *)
(* Python values.  A str is a sequence of symbols: a symbol is a digit,    *)
(* the product sign "*", or one whole identifier ("nq", "mjdata"), so      *)
(* "2*nq" is <<"2", "*", "nq">> and the name nq is <<"nq">>.  The empty    *)
(* str <<>> is what pyparsing gives for a named result that is absent.     *)
(* Where a position may hold values of several Python types (a dimension,  *)
(* a constant's value, a return value) the value is a record that names   *)
(* its type in t and holds the value in a field of that type's own.        *)
(***************************************************************************)
EXTENDS Integers, Sequences, FiniteSets, TLC

VARIABLES
    enums_dict,     \* self.enums_dict:    <<[k |-> enum name, v |-> <<[k |-> member, v |-> PyInt(n)]>>]>>
    consts_dict,    \* self.consts_dict:   <<[k |-> name, v |-> PyInt(n) or PyTrue]>>
    typedefs_dict,  \* self.typedefs_dict: <<[k |-> name, v |-> PyStr(type name)]>>
    hints_dict,     \* self.hints_dict:    <<[k |-> member name, v |-> shape]>>
    index_dict,     \* self.index_dict:    <<[k |-> struct, v |-> <<[k |-> member, v |-> shape]>>]>>
    exc,            \* the exception the last call ended with, or NoExc
    call,           \* the last call made and its arguments
    ret,            \* what the last call returned
    double_clicks,  \* DoubleClickDetector._double_clicks: button -> timestamp or None
    now,            \* the value time.time() returned last
    last_press      \* per button, the time and the result of the preceding press

vars == <<enums_dict, consts_dict, typedefs_dict, hints_dict, index_dict,
          exc, call, ret, double_clicks, now, last_press>>

tables == <<enums_dict, consts_dict, typedefs_dict, hints_dict, index_dict>>
detector == <<double_clicks, now, last_press>>

----------------------------------------------------------------------------
(* Python values *)

PyInt(n) == [t |-> "int", i |-> n]
PyStr(s) == [t |-> "str", s |-> s]
PyTuple(items) == [t |-> "tuple", items |-> items]
PyBool(b) == [t |-> "bool", b |-> b]
PyTrue == PyBool(TRUE)
PyNone == [t |-> "None"]

isinstance_int(x) == x.t = "int"
isinstance_str(x) == x.t = "str"

NoExc == "None"
DuplicateKeyError == "DuplicateKeyError"
NameError == "NameError"
LookupDepthError == "KeyError"

\* bool(x) of a str: only the empty str is false.
TruthyStr(s) == s # <<>>

\* bool(x) of a tagged value.
Truthy(x) ==
    CASE x.t = "int" -> x.i # 0
      [] x.t = "bool" -> x.b
      [] x.t = "str" -> x.s # <<>>
      [] x.t = "tuple" -> x.items # <<>>
      [] OTHER -> FALSE

DigitSyms == {"0", "1", "2", "3", "4", "5", "6", "7", "8", "9"}

DigitVal(c) ==
    CASE c = "0" -> 0 [] c = "1" -> 1 [] c = "2" -> 2 [] c = "3" -> 3
      [] c = "4" -> 4 [] c = "5" -> 5 [] c = "6" -> 6 [] c = "7" -> 7
      [] c = "8" -> 8 [] c = "9" -> 9

\* Whether int(s) succeeds: a non-empty run of decimal digits.
IsIntLiteral(s) == s # <<>> /\ \A i \in DOMAIN s : s[i] \in DigitSyms

RECURSIVE IntOfDigits(_, _)
IntOfDigits(s, acc) ==
    IF s = <<>> THEN acc ELSE IntOfDigits(Tail(s), 10 * acc + DigitVal(Head(s)))

\* int(s) on a decimal literal.
int(s) == IntOfDigits(s, 0)

RECURSIVE Pow2(_)
Pow2(n) == IF n = 0 THEN 1 ELSE 2 * Pow2(n - 1)

\* a << b on Python's unbounded ints.
lshift(a, b) == a * Pow2(b)

----------------------------------------------------------------------------
(* codegen_util.UniqueOrderedDict: an insertion-ordered table, a sequence   *)
(* of [k, v] entries with no key twice.                                    *)

Keys(d) == {d[i].k : i \in DOMAIN d}
Has(d, key) == key \in Keys(d)
Get(d, key) == d[CHOOSE i \in DOMAIN d : d[i].k = key].v

\* d[key] = value on a UniqueOrderedDict: a key already present is refused
\* and the table is left as it was.
UniqueSetItem(d, key, value) ==
    IF Has(d, key)
    THEN [d |-> d, exc |-> DuplicateKeyError]
    ELSE [d |-> Append(d, [k |-> key, v |-> value]), exc |-> NoExc]

\* d[key] = value on a plain dict: the value of a key already present is
\* replaced in place, a new key is appended.
PlainSetItem(d, key, value) ==
    IF Has(d, key)
    THEN [i \in DOMAIN d |-> IF d[i].k = key THEN [k |-> key, v |-> value] ELSE d[i]]
    ELSE Append(d, [k |-> key, v |-> value])

RECURSIVE DictUpdate(_, _)
\* d.update(other): every entry of other, in order, written over d.
DictUpdate(d, other) ==
    IF other = <<>> THEN d
    ELSE DictUpdate(PlainSetItem(d, Head(other).k, Head(other).v), Tail(other))

----------------------------------------------------------------------------
(* The generator's tables as one record, so that a pass can be written as   *)
(* a function from the tables before to the tables after (with the         *)
(* exception that ended it, if any).                                       *)

Self == [enums_dict |-> enums_dict, consts_dict |-> consts_dict,
         typedefs_dict |-> typedefs_dict, hints_dict |-> hints_dict,
         index_dict |-> index_dict, exc |-> NoExc]

Store(s) ==
    /\ enums_dict' = s.enums_dict
    /\ consts_dict' = s.consts_dict
    /\ typedefs_dict' = s.typedefs_dict
    /\ hints_dict' = s.hints_dict
    /\ index_dict' = s.index_dict
    /\ exc' = s.exc

----------------------------------------------------------------------------
(* parse_enums *)

RECURSIVE enum_members(_, _, _)
\* The member loop of one enum block: the members table built so far and
\* the running value; the result is the finished table, or the exception.
enum_members(ms, members, value) ==
    IF ms = <<>> THEN [d |-> members, exc |-> NoExc]
    ELSE LET member == Head(ms)
             v == IF TruthyStr(member.bit_lshift_a)
                  THEN lshift(int(member.bit_lshift_a), int(member.bit_lshift_b))
                  ELSE IF TruthyStr(member.value)
                  THEN int(member.value)
                  ELSE value + 1
             r == UniqueSetItem(members, member.name, PyInt(v))
         IN  IF r.exc # NoExc THEN r ELSE enum_members(Tail(ms), r.d, v)

RECURSIVE parse_enums_loop(_, _)
\* The loop over the enum blocks the scan yields, in order.
parse_enums_loop(src, s) ==
    IF src = <<>> \/ s.exc # NoExc THEN s
    ELSE LET enum == Head(src)
             m == enum_members(enum.members, <<>>, 0)
             r == UniqueSetItem(s.enums_dict, enum.name, m.d)
         IN  IF m.exc # NoExc THEN [s EXCEPT !.exc = m.exc]
             ELSE IF r.exc # NoExc THEN [s EXCEPT !.exc = r.exc]
             ELSE parse_enums_loop(Tail(src), [s EXCEPT !.enums_dict = r.d])

parse_enums(src) ==
    /\ Store(parse_enums_loop(src, Self))
    /\ call' = [op |-> "parse_enums", arg |-> src]
    /\ ret' = PyNone
    /\ UNCHANGED detector

----------------------------------------------------------------------------
(* codegen_util helpers and header_parsing.C_TO_CTYPES *)

RECURSIVE chase(_, _, _)
chase(key, d, seen) ==
    IF ~(isinstance_str(key) /\ Has(d, key.s)) THEN [v |-> key, exc |-> NoExc]
    ELSE IF key.s \in seen THEN [v |-> key, exc |-> LookupDepthError]
    ELSE chase(Get(d, key.s), d, seen \cup {key.s})

\* recursive_dict_lookup(key, try_dict): follows key -> try_dict[key] until
\* the value is no key of the table.  A chain that comes back to a key it
\* has been at has no end value, and the lookup fails.
recursive_dict_lookup(key, d) == chase(key, d, {})

\* try_coerce_to_num(s, try_types=(int,)): the int a numeric str spells;
\* anything else is handed back as it is.
try_coerce_to_num(x) ==
    IF isinstance_str(x) /\ IsIntLiteral(x.s) THEN PyInt(int(x.s)) ELSE x

\* The marker at the end of the name of an x-macro that lists a struct's
\* array-valued fields.
PointerSuffix == "_POINTERS"

is_macro_pointer(name) == name # <<>> /\ name[Len(name)] = PointerSuffix

\* str.lower() of one symbol.
Lower(sym) ==
    CASE sym = "MJDATA" -> "mjdata"
      [] sym = "MJMODEL" -> "mjmodel"
      [] OTHER -> sym

\* macro_struct_name(name): the name without the marker, lower-cased.
macro_struct_name(name) ==
    [i \in 1..(Len(name) - 1) |-> Lower(name[i])]

\* header_parsing.C_TO_CTYPES: native type spelling -> foreign type name.
C_TO_CTYPES == << [k |-> <<"int">>, v |-> PyStr(<<"i32">>)] >>

\* d.get(key, default)
DictGet(d, key, default) == IF Has(d, key) THEN Get(d, key) ELSE default

----------------------------------------------------------------------------
(* The resolver *)

RECURSIVE overlay_enums(_, _)
overlay_enums(view, enums) ==
    IF enums = <<>> THEN view
    ELSE overlay_enums(DictUpdate(view, Head(enums).v), Tail(enums))

\* The view built the other way round: the enums' members first, the
\* constants written over them.
get_consts_and_enums_consts_last(s) ==
    DictUpdate(overlay_enums(<<>>, s.enums_dict), s.consts_dict)

\* get_consts_and_enums: a copy of the constants with every enum's members
\* written over it, enum by enum in table order.
get_consts_and_enums(s) == overlay_enums(s.consts_dict, s.enums_dict)

RECURSIVE split(_, _, _)
\* s.split(sep): the pieces between the separators, empty pieces kept.
split(s, sep, piece) ==
    IF s = <<>> THEN <<piece>>
    ELSE IF Head(s) = sep THEN <<piece>> \o split(Tail(s), sep, <<>>)
    ELSE split(Tail(s), sep, Append(piece, Head(s)))

\* The first exception among the results, in order; NoExc when there is none.
FirstExc(rs) ==
    IF \A i \in DOMAIN rs : rs[i].exc = NoExc THEN NoExc
    ELSE rs[CHOOSE i \in DOMAIN rs :
                /\ rs[i].exc # NoExc
                /\ \A j \in 1..(i - 1) : rs[j].exc = NoExc].exc

RECURSIVE resolve_size(_, _)
\* resolve_size(old_size): [v |-> the value returned, exc |-> the exception].
resolve_size(old_size, s) ==
    IF isinstance_int(old_size) THEN [v |-> old_size, exc |-> NoExc]
    ELSE IF \E i \in DOMAIN old_size.s : old_size.s[i] = "*"
    THEN LET parts == split(old_size.s, "*", <<>>)
             sizes == [i \in DOMAIN parts |-> resolve_size(PyStr(parts[i]), s)]
         IN  IF FirstExc(sizes) # NoExc THEN [v |-> PyNone, exc |-> FirstExc(sizes)]
             \* int(np.prod(sizes)): the module binds no name np.
             ELSE IF \A i \in DOMAIN sizes : isinstance_int(sizes[i].v)
             THEN [v |-> PyNone, exc |-> NameError]
             ELSE [v |-> PyTuple([i \in DOMAIN sizes |-> sizes[i].v]), exc |-> NoExc]
    ELSE LET size == recursive_dict_lookup(old_size, get_consts_and_enums(s))
             num == try_coerce_to_num(size.v)
         IN  IF size.exc # NoExc THEN [v |-> PyNone, exc |-> size.exc]
             ELSE [v |-> IF Truthy(num) THEN num ELSE old_size, exc |-> NoExc]

\* d != 1 in Python: the int 1, and True, equal 1.
NotOne(d) == ~((d.t = "int" /\ d.i = 1) \/ (d.t = "bool" /\ d.b = TRUE))

\* get_shape_tuple(old_size, squeeze): a ParseResults is resolved dimension
\* by dimension, anything else as one dimension.
get_shape_tuple(old_size, squeeze, s) ==
    LET dims == IF old_size.t = "ParseResults" THEN old_size.dims
                ELSE <<old_size>>
        shape == [i \in DOMAIN dims |->
                    resolve_size(IF old_size.t = "ParseResults"
                                 THEN PyStr(dims[i]) ELSE dims[i], s)]
        kept == SelectSeq([i \in DOMAIN shape |-> shape[i].v],
                          LAMBDA d : ~squeeze \/ NotOne(d))
    IN  IF FirstExc(shape) # NoExc THEN [v |-> PyNone, exc |-> FirstExc(shape)]
        ELSE [v |-> PyTuple(kept), exc |-> NoExc]

\* resolve_typename with one level of indirection: the typedef's own
\* entry is read, and not followed further.
resolve_typename_one_level(old_ctypes_typename, s) ==
    LET looked == DictGet(s.typedefs_dict, old_ctypes_typename,
                          PyStr(old_ctypes_typename))
        new_ctypes_typename == DictGet(C_TO_CTYPES, looked.s, looked)
    IN  [v |-> new_ctypes_typename, exc |-> NoExc,
         warning |-> new_ctypes_typename = PyStr(old_ctypes_typename)]

\* resolve_typename(old_ctypes_typename): the name returned, the exception,
\* and whether the "Could not resolve typename" warning was logged.
resolve_typename(old_ctypes_typename, s) ==
    LET looked == recursive_dict_lookup(PyStr(old_ctypes_typename), s.typedefs_dict)
        new_ctypes_typename ==
            IF isinstance_str(looked.v)
            THEN DictGet(C_TO_CTYPES, looked.v.s, looked.v)
            ELSE looked.v
    IN  IF looked.exc # NoExc
        THEN [v |-> PyNone, exc |-> looked.exc, warning |-> FALSE]
        ELSE [v |-> new_ctypes_typename, exc |-> NoExc,
              warning |-> new_ctypes_typename = PyStr(old_ctypes_typename)]

----------------------------------------------------------------------------
(* parse_consts_typedefs *)

\* The tables after an insertion into the constants (the typedefs): the
\* table as the insertion left it, and the exception it raised, if any.
WithConsts(s, r) == [s EXCEPT !.consts_dict = r.d, !.exc = r.exc]
WithTypedefs(s, r) == [s EXCEPT !.typedefs_dict = r.d, !.exc = r.exc]

\* A conditional that asks whether the predicate is defined at all, as
\* #ifdef does, and not whether its value is true.
condition_of_defined(predicate, s) ==
    IF Has(get_consts_and_enums(s), predicate) THEN PyTrue ELSE PyNone

\* The predicate's value as the conditional reads it:
\* self.get_consts_and_enums().get(token.predicate).
condition_of(predicate, s) == DictGet(get_consts_and_enums(s), predicate, PyNone)

RECURSIVE recurse_into_conditionals(_, _)
\* _recurse_into_conditionals(tokens): the tokens in order, each against
\* the tables as the tokens before it left them; an exception ends the walk.
recurse_into_conditionals(tokens, s) ==
    IF tokens = <<>> \/ s.exc # NoExc THEN s
    ELSE LET token == Head(tokens)
             after ==
                 IF TruthyStr(token.predicate)
                 THEN IF Truthy(condition_of(token.predicate, s))
                      THEN recurse_into_conditionals(token.if_true, s)
                      ELSE recurse_into_conditionals(token.if_false, s)
                 ELSE IF TruthyStr(token.typename)
                 THEN WithTypedefs(s, UniqueSetItem(s.typedefs_dict, token.name,
                                                    PyStr(token.typename)))
                 ELSE IF TruthyStr(token.value)
                 THEN LET value == try_coerce_to_num(PyStr(token.value))
                      IN  IF ~isinstance_str(value)
                          THEN WithConsts(s, UniqueSetItem(s.consts_dict, token.name, value))
                          ELSE s
                 ELSE WithConsts(s, UniqueSetItem(s.consts_dict, token.name, PyTrue))
         IN  recurse_into_conditionals(Tail(tokens), after)

parse_consts_typedefs(src) ==
    /\ Store(recurse_into_conditionals(src, Self))
    /\ call' = [op |-> "parse_consts_typedefs", arg |-> src]
    /\ ret' = PyNone
    /\ UNCHANGED detector

----------------------------------------------------------------------------
(* parse_hints *)

\* self.index_dict.setdefault(struct_name, {})[member_name] = shape
index_set(index, struct_name, member_name, shape) ==
    LET present == IF Has(index, struct_name) THEN index
                   ELSE Append(index, [k |-> struct_name, v |-> <<>>])
    IN  [i \in DOMAIN present |->
            IF present[i].k = struct_name
            THEN [k |-> struct_name,
                  v |-> PlainSetItem(present[i].v, member_name, shape)]
            ELSE present[i]]

\* The member loop's body with hints_dict.update({name: shape}) for the
\* insertion: a name already present has its shape overwritten.
hint_member_update(xmacro, member, s) ==
    LET shape == get_shape_tuple(member.dims, TRUE, s)
    IN  IF shape.exc # NoExc THEN [s EXCEPT !.exc = shape.exc]
        ELSE IF is_macro_pointer(xmacro.name)
        THEN [s EXCEPT !.hints_dict = PlainSetItem(s.hints_dict, member.name, shape.v),
                       !.index_dict = index_set(s.index_dict,
                                                macro_struct_name(xmacro.name),
                                                member.name, shape.v)]
        ELSE [s EXCEPT !.hints_dict = PlainSetItem(s.hints_dict, member.name, shape.v)]

\* The member loop's body without the test for a pointer x-macro: every
\* member is indexed.
hint_member_no_test(xmacro, member, s) ==
    LET shape == get_shape_tuple(member.dims, TRUE, s)
        r == UniqueSetItem(s.hints_dict, member.name, shape.v)
    IN  IF shape.exc # NoExc THEN [s EXCEPT !.exc = shape.exc]
        ELSE IF r.exc # NoExc THEN [s EXCEPT !.exc = r.exc]
        ELSE [s EXCEPT !.hints_dict = r.d,
                       !.index_dict = index_set(s.index_dict,
                                                macro_struct_name(xmacro.name),
                                                member.name, shape.v)]

\* The body of the member loop for one member of one x-macro.
hint_member(xmacro, member, s) ==
    LET shape == get_shape_tuple(member.dims, TRUE, s)
        r == UniqueSetItem(s.hints_dict, member.name, shape.v)
    IN  IF shape.exc # NoExc THEN [s EXCEPT !.exc = shape.exc]
        ELSE IF r.exc # NoExc THEN [s EXCEPT !.exc = r.exc]
        ELSE IF is_macro_pointer(xmacro.name)
        THEN [s EXCEPT !.hints_dict = r.d,
                       !.index_dict = index_set(s.index_dict,
                                                macro_struct_name(xmacro.name),
                                                member.name, shape.v)]
        ELSE [s EXCEPT !.hints_dict = r.d]

RECURSIVE hint_members(_, _, _)
hint_members(xmacro, ms, s) ==
    IF ms = <<>> \/ s.exc # NoExc THEN s
    ELSE hint_members(xmacro, Tail(ms), hint_member(xmacro, Head(ms), s))

RECURSIVE parse_hints_loop(_, _)
\* The loop over the x-macros the scan yields, in order.
parse_hints_loop(src, s) ==
    IF src = <<>> \/ s.exc # NoExc THEN s
    ELSE parse_hints_loop(Tail(src), hint_members(Head(src), Head(src).members, s))

parse_hints(xmacro_src) ==
    /\ Store(parse_hints_loop(xmacro_src, Self))
    /\ call' = [op |-> "parse_hints", arg |-> xmacro_src]
    /\ ret' = PyNone
    /\ UNCHANGED detector

----------------------------------------------------------------------------
(* Calls of the resolver: they read the tables and change none. *)

call_get_consts_and_enums ==
    /\ ret' = [t |-> "dict", d |-> get_consts_and_enums(Self)]
    /\ exc' = NoExc
    /\ call' = [op |-> "get_consts_and_enums", arg |-> <<>>]
    /\ UNCHANGED <<tables, detector>>

call_resolve_size(old_size) ==
    LET r == resolve_size(old_size, Self)
    IN  /\ ret' = r.v
        /\ exc' = r.exc
        /\ call' = [op |-> "resolve_size", arg |-> old_size]
        /\ UNCHANGED <<tables, detector>>

call_resolve_typename(name) ==
    LET r == resolve_typename(name, Self)
    IN  /\ ret' = [t |-> "typename", v |-> r.v, warning |-> r.warning]
        /\ exc' = r.exc
        /\ call' = [op |-> "resolve_typename", arg |-> name]
        /\ UNCHANGED <<tables, detector>>

----------------------------------------------------------------------------
(* viewer.gui.base.DoubleClickDetector, as base_test.py drives it *)

PRESS == "PRESS"
RELEASE == "RELEASE"
MOUSE_BUTTON_LEFT == "MOUSE_BUTTON_LEFT"
MOUSE_BUTTON_RIGHT == "MOUSE_BUTTON_RIGHT"

\* base._DOUBLE_CLICK_INTERVAL, in clock ticks.
DOUBLE_CLICK_INTERVAL == 2

\* The detector with "at most the interval apart" for a double click.
detect_at_most(timestamp, curr_time) ==
    IF timestamp = PyNone
    THEN [stamp |-> PyInt(curr_time), result |-> FALSE]
    ELSE IF curr_time - timestamp.i <= DOUBLE_CLICK_INTERVAL
    THEN [stamp |-> PyNone, result |-> TRUE]
    ELSE [stamp |-> PyInt(curr_time), result |-> FALSE]

\* What a press at curr_time does with the button's stored timestamp: with
\* none stored the press is stored; a press less than the interval after
\* the stored one is a double click and clears it; a later press replaces it.
detect(timestamp, curr_time) ==
    IF timestamp = PyNone
    THEN [stamp |-> PyInt(curr_time), result |-> FALSE]
    ELSE IF curr_time - timestamp.i < DOUBLE_CLICK_INTERVAL
    THEN [stamp |-> PyNone, result |-> TRUE]
    ELSE [stamp |-> PyInt(curr_time), result |-> FALSE]

\* detector.process(button, action) with time.time() returning curr_time.
process(button, action, curr_time) ==
    LET d == detect(double_clicks[button], curr_time)
    IN  /\ now' = curr_time
        /\ call' = [op |-> "process", arg |-> <<button, action>>]
        /\ exc' = NoExc
        /\ IF action = PRESS
           THEN /\ double_clicks' = [double_clicks EXCEPT ![button] = d.stamp]
                /\ ret' = PyBool(d.result)
                /\ last_press' = [last_press EXCEPT
                                    ![button] = [t |-> "press", time |-> curr_time,
                                                 result |-> d.result]]
           ELSE /\ ret' = PyBool(FALSE)
                /\ UNCHANGED <<double_clicks, last_press>>
        /\ UNCHANGED tables

----------------------------------------------------------------------------
(* Construction: BindingGenerator() with no table passed in, and a          *)
(* DoubleClickDetector() before any event.                                 *)

Buttons == {MOUSE_BUTTON_LEFT, MOUSE_BUTTON_RIGHT}

Init ==
    /\ enums_dict = <<>>
    /\ consts_dict = <<>>
    /\ typedefs_dict = <<>>
    /\ hints_dict = <<>>
    /\ index_dict = <<>>
    /\ exc = NoExc
    /\ call = [op |-> "__init__", arg |-> <<>>]
    /\ ret = PyNone
    /\ double_clicks = [b \in Buttons |-> PyNone]
    /\ now = 0
    /\ last_press = [b \in Buttons |-> [t |-> "None", time |-> 0, result |-> FALSE]]

\* No call has been made on the generator yet.
Fresh == call.op = "__init__"

----------------------------------------------------------------------------
(* Enum blocks fed to parse_enums *)

MaxMembers == 3

Absent == <<>>

EnumMemberNames == {<<"X">>, <<"Y">>, <<"Z">>}

\* A member as ENUM_DECL yields it: a name and either nothing, a value, or
\* the two operands of a shift.
EnumMembers ==
    { [name |-> n, value |-> v, bit_lshift_a |-> Absent, bit_lshift_b |-> Absent] :
        n \in EnumMemberNames, v \in {Absent, <<"0">>, <<"1", "0">>} }
    \cup
    { [name |-> n, value |-> Absent, bit_lshift_a |-> <<"1">>, bit_lshift_b |-> <<"2">>] :
        n \in EnumMemberNames }

SeqsUpTo(S, n) == UNION { [1..k -> S] : k \in 1..n }

EnumBlocks(names, n) ==
    { [name |-> e, members |-> ms] : e \in names, ms \in SeqsUpTo(EnumMembers, n) }

\* One block of up to MaxMembers members, or two one-member blocks.
EnumSrcs ==
    { <<e>> : e \in EnumBlocks({<<"E">>}, MaxMembers) }
    \cup
    { <<e, f>> : e \in EnumBlocks({<<"E">>}, 1), f \in EnumBlocks({<<"E">>, <<"F">>}, 1) }

\* One header parsed for its enums by a new generator.
NextEnums == Fresh /\ \E src \in EnumSrcs : parse_enums(src)

SpecEnums == Init /\ [][NextEnums]_vars

----------------------------------------------------------------------------
(* Declarations fed to parse_consts_typedefs *)

\* The token of a flat declaration: a typedef has a typename, a valued
\* define has a value, a bare define has neither.
Decl(name, typename, value) ==
    [predicate |-> Absent, if_true |-> <<>>, if_false |-> <<>>,
     name |-> name, typename |-> typename, value |-> value]

\* The token of a conditional block.
Conditional(predicate, if_true, if_false) ==
    [predicate |-> predicate, if_true |-> if_true, if_false |-> if_false,
     name |-> Absent, typename |-> Absent, value |-> Absent]

Defines(names, values) ==
    { Decl(n, Absent, v) : n \in names, v \in values }

----------------------------------------------------------------------------
(* Sizes: constants and enums are recorded, sizes are resolved *)

MaxFactors == 2

SizeNames == {<<"A">>, <<"B">>, <<"C">>}

\* #define A 0 / 2 / 3, #define A, #define A x
SizeDefines ==
    Defines({<<"A">>, <<"B">>}, {Absent, <<"0">>, <<"2">>, <<"3">>, <<"x">>})

\* enum E { A = 0 }; and the like: one block of one member.
SizeEnums ==
    { [name |-> e,
       members |-> << [name |-> n, value |-> v,
                       bit_lshift_a |-> Absent, bit_lshift_b |-> Absent] >>] :
        e \in {<<"E">>, <<"F">>}, n \in {<<"A">>, <<"C">>}, v \in {<<"0">>, <<"7">>} }

RECURSIVE JoinStar(_)
\* "*".join(factors)
JoinStar(fs) ==
    IF Len(fs) = 1 THEN Head(fs) ELSE Head(fs) \o <<"*">> \o JoinStar(Tail(fs))

Factors == {<<"A">>, <<"B">>, <<"2">>}

Products ==
    { JoinStar(fs) : fs \in UNION { [1..k -> Factors] : k \in 2..MaxFactors } }

SizeArgs ==
    {PyInt(5)} \cup { PyStr(n) : n \in SizeNames \cup {<<"2">>} \cup Products }

\* Constants and enums are recorded and sizes resolved in any order; an
\* exception ends the run.
NextSize ==
    /\ exc = NoExc
    /\ \/ \E d \in SizeDefines : parse_consts_typedefs(<<d>>)
       \/ \E e \in SizeEnums : parse_enums(<<e>>)
       \/ \E a \in SizeArgs : call_resolve_size(a)
       \/ call_get_consts_and_enums

SpecSize == Init /\ [][NextSize]_vars

IsProduct(x) == isinstance_str(x) /\ \E i \in DOMAIN x.s : x.s[i] = "*"

RECURSIVE ProductOf(_)
ProductOf(ns) == IF ns = <<>> THEN 1 ELSE Head(ns).i * ProductOf(Tail(ns))

\* C2: resolve_size on a product expression never fails; it returns the
\* integer product of the factors when every factor resolves to an integer,
\* and the tuple of the factors as resolved, in order, otherwise.
C2_ProductResolved ==
    (call.op = "resolve_size" /\ IsProduct(call.arg)) =>
        LET parts == split(call.arg.s, "*", <<>>)
            sizes == [i \in DOMAIN parts |-> resolve_size(PyStr(parts[i]), Self).v]
        IN  /\ exc = NoExc
            /\ IF \A i \in DOMAIN sizes : isinstance_int(sizes[i])
               THEN ret = PyInt(ProductOf(sizes))
               ELSE ret = PyTuple(sizes)

\* The value the lookup of a name in the combined view ends at.
LookupEnd(name) == recursive_dict_lookup(name, get_consts_and_enums(Self)).v

\* Whether a value can be coerced to an integer: an int, or a str that
\* spells one.
IntCoercible(x) == isinstance_int(x) \/ (isinstance_str(x) /\ IsIntLiteral(x.s))

IntValue(x) == IF isinstance_int(x) THEN x.i ELSE int(x.s)

\* C3: resolve_size on a token that is no product returns an int unchanged,
\* returns the integer v (0 included) when the lookup of the name ends at a
\* value that coerces to v, and returns the token itself only when the
\* lookup ends at a value that does not coerce to an integer.
C3_NameResolved ==
    (call.op = "resolve_size" /\ ~IsProduct(call.arg)) =>
        /\ isinstance_int(call.arg) => (exc = NoExc /\ ret = call.arg)
        /\ isinstance_str(call.arg) =>
              /\ IntCoercible(LookupEnd(call.arg)) =>
                    (exc = NoExc /\ ret = PyInt(IntValue(LookupEnd(call.arg))))
              /\ ret = call.arg => ~IntCoercible(LookupEnd(call.arg))

\* The enums, by position in enums_dict, that have a member of this name.
EnumsWith(name) == { i \in DOMAIN enums_dict : Has(enums_dict[i].v, name) }

LastEnumWith(name) ==
    CHOOSE i \in EnumsWith(name) : \A j \in EnumsWith(name) : j <= i

AllMemberNames == UNION { Keys(enums_dict[i].v) : i \in DOMAIN enums_dict }

\* C10: get_consts_and_enums raises nothing and leaves the tables as they
\* were; the view it returns holds every constant and every enum member,
\* a name that is a member of some enum with the value the last such enum
\* (in table order) gives it, any other name with its constant's value.
C10_EnumOverlaysConst ==
    [][ call'.op = "get_consts_and_enums" =>
          /\ exc' = NoExc
          /\ tables' = tables
          /\ Keys(ret'.d) = Keys(consts_dict) \cup AllMemberNames
          /\ \A n \in Keys(ret'.d) :
                Get(ret'.d, n) =
                    IF EnumsWith(n) # {}
                    THEN Get(enums_dict[LastEnumWith(n)].v, n)
                    ELSE Get(consts_dict, n) ]_vars

\* The view was taken while a constant and members of two enums shared a
\* name, with three different values.
C10_Witness ==
    /\ call.op = "get_consts_and_enums"
    /\ \E n \in Keys(consts_dict) :
          /\ Cardinality(EnumsWith(n)) = 2
          /\ \A i \in EnumsWith(n) :
                /\ Get(enums_dict[i].v, n) # Get(consts_dict, n)
                /\ i # LastEnumWith(n) =>
                      Get(enums_dict[i].v, n) # Get(enums_dict[LastEnumWith(n)].v, n)

----------------------------------------------------------------------------
(* Conditional blocks: nested #ifdef ... #else ... #endif *)

MaxDepth == 2

CondPredicates == {<<"P">>, <<"Q">>}

\* What a branch holds besides a nested block: nothing, #define X,
\* typedef int Z, or #define Q 2.
Branch0 ==
    { <<>>,
      << Decl(<<"X">>, Absent, Absent) >>,
      << Decl(<<"Z">>, <<"int">>, Absent) >>,
      << Decl(<<"Q">>, Absent, <<"2">>) >> }

RECURSIVE CondTokens(_)
\* The conditional blocks nested at most d deep, the nested block in one of
\* the two branches.
CondTokens(d) ==
    IF d = 0 THEN {}
    ELSE LET inner == Branch0 \cup { <<c>> : c \in CondTokens(d - 1) }
         IN  { Conditional(p, t, f) : p \in CondPredicates, t \in inner, f \in Branch0 }
             \cup
             { Conditional(p, t, f) : p \in CondPredicates, t \in Branch0, f \in inner }

\* #define P, #define P 0, #define Q 2, #define P x
CondDefines ==
    { Decl(<<"P">>, Absent, Absent), Decl(<<"P">>, Absent, <<"0">>),
      Decl(<<"Q">>, Absent, <<"2">>), Decl(<<"P">>, Absent, <<"x">>) }

\* enum E { Q = 0 };
CondEnums ==
    { [name |-> <<"E">>,
       members |-> << [name |-> <<"Q">>, value |-> <<"0">>,
                       bit_lshift_a |-> Absent, bit_lshift_b |-> Absent] >>] }

\* A header with conditional blocks: one block, or two tokens of which the
\* second is a block nested one deep.
CondSrcs ==
    { <<c>> : c \in CondTokens(MaxDepth) }
    \cup { <<a, c>> : a \in CondDefines \cup CondTokens(1), c \in CondTokens(1) }

IsConditional(token) == token.predicate # Absent

RECURSIVE Nodes(_)
\* The conditional blocks among the tokens, at any depth.
Nodes(tokens) ==
    IF tokens = <<>> THEN {}
    ELSE (IF IsConditional(Head(tokens))
          THEN {Head(tokens)} \cup Nodes(Head(tokens).if_true)
                              \cup Nodes(Head(tokens).if_false)
          ELSE {})
         \cup Nodes(Tail(tokens))

\* The last call parsed a header that has conditional blocks.
ParsedConditionals == call.op = "parse_consts_typedefs" /\ Nodes(call.arg) # {}

\* Headers of plain defines and of enums are parsed in any order, and then
\* one header with conditional blocks, which ends the run.
NextCond ==
    /\ ~ParsedConditionals
    /\ exc = NoExc
    /\ \/ \E d \in CondDefines : parse_consts_typedefs(<<d>>)
       \/ \E e \in CondEnums : parse_enums(<<e>>)
       \/ \E src \in CondSrcs : parse_consts_typedefs(src)

SpecCond == Init /\ [][NextCond]_vars

\* The combined constants-and-enums view of the tables as they are.
View == get_consts_and_enums(Self)

\* A predicate is true when the view has it with a value that is neither 0
\* nor false.
Defined(view, p) == Has(view, p) /\ Get(view, p) # PyInt(0)

\* A declaration that is recorded when it is reached: a typedef, a bare
\* define, or a define whose value is a number.
Recordable(token) ==
    \/ token.typename # Absent
    \/ token.value = Absent
    \/ IsIntLiteral(token.value)

RECURSIVE Occurrences(_, _)
\* How many declarations of the name the tokens hold, at any depth.
Occurrences(tokens, n) ==
    IF tokens = <<>> THEN 0
    ELSE (IF IsConditional(Head(tokens))
          THEN Occurrences(Head(tokens).if_true, n) + Occurrences(Head(tokens).if_false, n)
          ELSE IF Head(tokens).name = n THEN 1 ELSE 0)
         + Occurrences(Tail(tokens), n)

DeclNames == {<<"P">>, <<"Q">>, <<"X">>, <<"Z">>}

\* The name is declared in the header, and only inside this branch.
OnlyUnder(n, branch, src) ==
    Occurrences(branch, n) > 0 /\ Occurrences(branch, n) = Occurrences(src, n)

RECURSIVE Selected(_, _, _)
\* The declarations, in order, that lie on branches the predicates select:
\* a block whose predicate is true before the pass contributes its if_true
\* branch, one whose predicate is not true after the pass its if_false
\* branch, and one whose predicate becomes true during the pass nothing.
Selected(tokens, before, after) ==
    IF tokens = <<>> THEN <<>>
    ELSE LET token == Head(tokens)
         IN  (IF IsConditional(token)
              THEN IF Defined(before, token.predicate)
                   THEN Selected(token.if_true, before, after)
                   ELSE IF ~Defined(after, token.predicate)
                   THEN Selected(token.if_false, before, after)
                   ELSE <<>>
              ELSE IF Recordable(token) THEN <<token>> ELSE <<>>)
             \o Selected(Tail(tokens), before, after)

\* The declaration is in the table it belongs to, as declared.
Recorded(token, consts, typedefs) ==
    IF token.typename # Absent
    THEN Has(typedefs, token.name) /\ Get(typedefs, token.name) = PyStr(token.typename)
    ELSE /\ Has(consts, token.name)
         /\ Get(consts, token.name) =
                IF token.value = Absent THEN PyTrue ELSE PyInt(int(token.value))

\* C4: in a parse_consts_typedefs pass, for every conditional block at any
\* depth, a name declared only in the if_true branch does not enter
\* consts_dict or typedefs_dict when the predicate is absent or zero, a
\* name declared only in the if_false branch does not enter them when the
\* predicate is present and true, and when the pass ends without an error
\* every declaration on the selected branches is recorded.
C4_OneBranchRecorded ==
    [][ call'.op = "parse_consts_typedefs" =>
          LET src == call'.arg
              before == View
              after == View'
              New(n) == /\ n \notin Keys(consts_dict) \cup Keys(typedefs_dict)
                        /\ n \in Keys(consts_dict') \cup Keys(typedefs_dict')
              chosen == Selected(src, before, after)
          IN  /\ \A node \in Nodes(src) : \A n \in DeclNames :
                    /\ (~Defined(after, node.predicate) /\ OnlyUnder(n, node.if_true, src))
                          => ~New(n)
                    /\ (Defined(before, node.predicate) /\ OnlyUnder(n, node.if_false, src))
                          => ~New(n)
              /\ exc' = NoExc =>
                    \A i \in DOMAIN chosen :
                        Recorded(chosen[i], consts_dict', typedefs_dict') ]_vars

\* A pass took the if_false branch of a block nested in the if_true branch
\* of another: P was true and Q was zero, and only the inner if_false
\* declaration was recorded.
C4_Witness ==
    /\ call.op = "parse_consts_typedefs"
    /\ exc = NoExc
    /\ \E outer \in Nodes(call.arg) :
          /\ outer.predicate = <<"P">>
          /\ Defined(View, <<"P">>)
          /\ \E i \in DOMAIN outer.if_true :
                LET inner == outer.if_true[i]
                IN  /\ IsConditional(inner)
                    /\ inner.predicate = <<"Q">>
                    /\ Has(View, <<"Q">>) /\ ~Defined(View, <<"Q">>)
                    /\ inner.if_true = << Decl(<<"X">>, Absent, Absent) >>
                    /\ inner.if_false = << Decl(<<"Z">>, <<"int">>, Absent) >>
                    /\ Has(typedefs_dict, <<"Z">>)
                    /\ ~Has(consts_dict, <<"X">>)

----------------------------------------------------------------------------
(* The three passes together: constants, enums and x-macro tables *)

NQ == <<"nq">>

\* #define nq 7, #define nq 0, typedef int T,
\* #ifdef nq / #define nv 3 / #else / #define nq 7 / #endif, and
\* #define nv 3 followed by #ifdef nv / typedef int T / #endif
TableDecls ==
    { << Decl(NQ, Absent, <<"7">>) >>,
      << Decl(NQ, Absent, <<"0">>) >>,
      << Decl(<<"T">>, <<"int">>, Absent) >>,
      << Conditional(NQ, << Decl(<<"nv">>, Absent, <<"3">>) >>,
                         << Decl(NQ, Absent, <<"7">>) >>) >>,
      << Decl(<<"nv">>, Absent, <<"3">>),
         Conditional(<<"nv">>, << Decl(<<"T">>, <<"int">>, Absent) >>, <<>>) >> }

EnumMember(n, v) ==
    [name |-> n, value |-> v, bit_lshift_a |-> Absent, bit_lshift_b |-> Absent]

\* enum E { nq = 3 }; enum E { nq, nq };
TableEnums ==
    { << [name |-> <<"E">>, members |-> << EnumMember(NQ, <<"3">>) >>] >>,
      << [name |-> <<"E">>, members |-> << EnumMember(NQ, Absent), EnumMember(NQ, Absent) >>] >> }

ParseResults(dims) == [t |-> "ParseResults", dims |-> dims]

\* The dimensions of a member: [nq], [1][nq], [2*nq]
MemberDims ==
    { ParseResults(<< NQ >>),
      ParseResults(<< <<"1">>, NQ >>),
      ParseResults(<< <<"2", "*", "nq">> >>) }

XMemberNames == { <<"qpos">>, <<"qvel">> }

XMembers == { [name |-> n, dims |-> d] : n \in XMemberNames, d \in MemberDims }

XMacroNames == { <<"MJDATA", PointerSuffix>>, <<"MJMODEL", "_INTS">> }

\* One x-macro of one member, or of two of which the second is [nq], or
\* two x-macros of one member [nq].
XMacroSrcs ==
    { << [name |-> x, members |-> <<m>>] >> : x \in XMacroNames, m \in XMembers }
    \cup
    { << [name |-> x, members |-> <<m, [name |-> n, dims |-> ParseResults(<<NQ>>)]>>] >> :
        x \in XMacroNames, m \in XMembers, n \in XMemberNames }
    \cup
    { << [name |-> x, members |-> << [name |-> m, dims |-> ParseResults(<<NQ>>)] >>],
         [name |-> y, members |-> << [name |-> n, dims |-> ParseResults(<<NQ>>)] >>] >> :
        x \in XMacroNames \cup { <<"MJMODEL", PointerSuffix>> },
        y \in XMacroNames, m \in XMemberNames, n \in XMemberNames }

\* The passes in any order; an exception ends the run.
NextTables ==
    /\ exc = NoExc
    /\ \/ \E src \in TableDecls : parse_consts_typedefs(src)
       \/ \E src \in TableEnums : parse_enums(src)
       \/ \E src \in XMacroSrcs : parse_hints(src)

SpecTables == Init /\ [][NextTables]_vars

\* What a table (a field's inner table) holds is still there, unchanged.
Kept(d, e) == \A key \in Keys(d) : Has(e, key) /\ Get(e, key) = Get(d, key)

KeptInner(d, e) ==
    \A key \in Keys(d) : Has(e, key) /\ Kept(Get(d, key), Get(e, key))

\* Position i holds a key that the table has, or that an earlier position holds.
Repeats(keys, i, present) ==
    keys[i] \in present \/ \E j \in 1..(i - 1) : keys[j] = keys[i]

RECURSIVE Flatten(_)
\* The members of the x-macros, in order, each with its x-macro's name.
Flatten(src) ==
    IF src = <<>> THEN <<>>
    ELSE [i \in DOMAIN Head(src).members |->
             [xmacro |-> Head(src).name, member |-> Head(src).members[i]]]
         \o Flatten(Tail(src))

IndexMembers(index) == UNION { Keys(index[i].v) : i \in DOMAIN index }

\* Whether the call tries an insertion under a key that is present: an
\* enum block named like a recorded one or like an earlier block, or with
\* a member name twice; a selected declaration named like a recorded one
\* of its table or like an earlier selected one; an x-macro member named
\* like a recorded hint or like an earlier member, when no member up to it
\* fails to resolve.
InsertsPresentKey(c, after) ==
    CASE c.op = "parse_enums" ->
            \E i \in DOMAIN c.arg :
                \/ Repeats([j \in DOMAIN c.arg |-> c.arg[j].name], i, Keys(enums_dict))
                \/ \E m \in DOMAIN c.arg[i].members :
                      Repeats([j \in DOMAIN c.arg[i].members |-> c.arg[i].members[j].name],
                              m, {})
      [] c.op = "parse_consts_typedefs" ->
            LET chosen == Selected(c.arg, View, after)
                types == SelectSeq(chosen, LAMBDA t : t.typename # Absent)
                consts == SelectSeq(chosen, LAMBDA t : t.typename = Absent)
            IN  \/ \E i \in DOMAIN types :
                      Repeats([j \in DOMAIN types |-> types[j].name], i, Keys(typedefs_dict))
                \/ \E i \in DOMAIN consts :
                      Repeats([j \in DOMAIN consts |-> consts[j].name], i, Keys(consts_dict))
      [] c.op = "parse_hints" ->
            LET ms == Flatten(c.arg)
            IN  \E i \in DOMAIN ms :
                    /\ Repeats([j \in DOMAIN ms |-> ms[j].member.name], i,
                               Keys(hints_dict) \cup IndexMembers(index_dict))
                    /\ \A j \in 1..i :
                          get_shape_tuple(ms[j].member.dims, TRUE, Self).exc = NoExc
      [] OTHER -> FALSE

\* C5: a call that tries to insert a key that is already present ends with
\* the duplicate-key error, and whatever the call, every entry the five
\* tables held before it is held unchanged after it.
C5_DuplicateKeyRefused ==
    [][ /\ InsertsPresentKey(call', View') => exc' = DuplicateKeyError
        /\ Kept(enums_dict, enums_dict')
        /\ Kept(consts_dict, consts_dict')
        /\ Kept(typedefs_dict, typedefs_dict')
        /\ Kept(hints_dict, hints_dict')
        /\ KeptInner(index_dict, index_dict') ]_vars

\* parse_hints was refused a member name that hints_dict and index_dict
\* already held.
C5_Witness ==
    /\ call.op = "parse_hints"
    /\ exc = DuplicateKeyError
    /\ \E i \in DOMAIN Flatten(call.arg) :
          Flatten(call.arg)[i].member.name \in Keys(hints_dict) \cap IndexMembers(index_dict)

\* The x-macro of the first member of this name in the header.
FirstXMacroOf(src, n) ==
    LET ms == Flatten(src)
    IN  ms[CHOOSE i \in DOMAIN ms :
               /\ ms[i].member.name = n
               /\ \A j \in 1..(i - 1) : ms[j].member.name # n].xmacro

\* The struct names under which index_dict holds the member.
StructsOf(index, n) == { index[i].k : i \in { j \in DOMAIN index : Has(index[j].v, n) } }

\* C6: index_dict is hints_dict restricted to the members of pointer
\* x-macros.  Every member index_dict holds is held by hints_dict with the
\* same shape; a member that parse_hints adds to hints_dict is added to
\* index_dict, under the lower-cased struct name only, when its x-macro is
\* a pointer x-macro, and is not added to index_dict otherwise; and
\* index_dict changes in no other way.
C6_IndexRestrictsHints ==
    [][ /\ \A i \in DOMAIN index_dict' : \A n \in Keys(index_dict'[i].v) :
              /\ Has(hints_dict', n)
              /\ Get(index_dict'[i].v, n) = Get(hints_dict', n)
        /\ \A n \in Keys(hints_dict') \ Keys(hints_dict) :
              /\ call'.op = "parse_hints"
              /\ LET xmacro == FirstXMacroOf(call'.arg, n)
                 IN  StructsOf(index_dict', n) =
                        IF xmacro[Len(xmacro)] = "_POINTERS"
                        THEN { <<Lower(xmacro[1])>> }
                        ELSE {}
        /\ \A n \in Keys(hints_dict) : StructsOf(index_dict', n) = StructsOf(index_dict, n) ]_vars

\* nq is the constant 7, and the pointer x-macro of mjdata with member
\* qpos[nq] gave index_dict {"mjdata": {"qpos": (7,)}}, while a member of
\* a non-pointer x-macro is in hints_dict only.
C6_Witness ==
    /\ Has(consts_dict, NQ) /\ Get(consts_dict, NQ) = PyInt(7)
    /\ index_dict = << [k |-> <<"mjdata">>,
                        v |-> << [k |-> <<"qpos">>, v |-> PyTuple(<<PyInt(7)>>)] >>] >>
    /\ Has(hints_dict, <<"qvel">>)

----------------------------------------------------------------------------
\* The shape the claim gives a member: each dimension that is a name or a
\* number resolved against the view, the value the view ends at when that
\* is an integer and the token itself otherwise, the dimensions equal to 1
\* dropped.
ClaimedDim(token) ==
    IF IntCoercible(LookupEnd(PyStr(token)))
    THEN PyInt(IntValue(LookupEnd(PyStr(token))))
    ELSE PyStr(token)

ClaimedShape(dims) ==
    PyTuple(SelectSeq([i \in DOMAIN dims |-> ClaimedDim(dims[i])],
                      LAMBDA d : d # PyInt(1)))

FirstMemberOf(src, n) ==
    LET ms == Flatten(src)
    IN  ms[CHOOSE i \in DOMAIN ms :
               /\ ms[i].member.name = n
               /\ \A j \in 1..(i - 1) : ms[j].member.name # n].member

\* C9, sizes: a member that parse_hints records, whose dimensions are names
\* or numbers, is stored with each dimension resolved against the tables
\* as they are at the call: the recorded integer when the name is recorded,
\* the name itself when it is not.
C9_SizeSeesTablesAtCall ==
    call'.op = "parse_hints" =>
        \A n \in Keys(hints_dict') \ Keys(hints_dict) :
            LET dims == FirstMemberOf(call'.arg, n).dims.dims
            IN  (\A i \in DOMAIN dims : ~IsProduct(PyStr(dims[i]))) =>
                    Get(hints_dict', n) = ClaimedShape(dims)

\* C9, no revision: no call changes an entry that hints_dict, index_dict,
\* consts_dict or typedefs_dict holds.
C9_NeverRevised ==
    /\ Kept(hints_dict, hints_dict')
    /\ KeptInner(index_dict, index_dict')
    /\ Kept(consts_dict, consts_dict')
    /\ Kept(typedefs_dict, typedefs_dict')

\* C9, predicates: a block whose predicate is not recorded (or is zero)
\* when the pass ends took its if_false branch, and a block that follows,
\* in the same pass, the define of its predicate took its if_true branch.
C9_PredicateSeesTablesAtCall ==
    call'.op = "parse_consts_typedefs" =>
        LET src == call'.arg
            New(n) == /\ n \notin Keys(consts_dict) \cup Keys(typedefs_dict)
                      /\ n \in Keys(consts_dict') \cup Keys(typedefs_dict')
        IN  /\ \A node \in Nodes(src) :
                  \A n \in {<<"nq">>, <<"nv">>, <<"T">>} :
                      (~Defined(View', node.predicate) /\ OnlyUnder(n, node.if_true, src))
                          => ~New(n)
            /\ \A i \in DOMAIN src : \A j \in 1..(i - 1) :
                  ( /\ exc' = NoExc
                    /\ IsConditional(src[i])
                    /\ ~IsConditional(src[j])
                    /\ src[j].name = src[i].predicate
                    /\ src[j].typename = Absent
                    /\ (src[j].value = Absent
                        \/ (IsIntLiteral(src[j].value) /\ int(src[j].value) # 0)) )
                  => \A k \in DOMAIN src[i].if_true :
                        (~IsConditional(src[i].if_true[k]) /\ Recordable(src[i].if_true[k]))
                            => Recorded(src[i].if_true[k], consts_dict', typedefs_dict')

\* C9: resolution uses the tables as they are at the resolving call and is
\* never revised: a symbol not yet recorded leaves the dimension symbolic
\* (the if_false branch taken) without an error, later declarations change
\* no stored entry, and a declaration recorded earlier is seen by every
\* later predicate and size expression.
C9_ResolvedAtCallTime ==
    [][ /\ C9_SizeSeesTablesAtCall
        /\ C9_NeverRevised
        /\ C9_PredicateSeesTablesAtCall ]_vars

----------------------------------------------------------------------------
(* Typedefs are recorded and type names resolved *)

TypedefNames == { <<"A">>, <<"B">> }
TypeNames == { <<"A">>, <<"B">>, <<"int">>, <<"float">> }

\* typedef B A; typedef int B; and the like
Typedefs == { Decl(n, t, Absent) : n \in TypedefNames, t \in TypeNames }

NextType ==
    /\ exc = NoExc
    /\ \/ \E d \in Typedefs : parse_consts_typedefs(<<d>>)
       \/ \E n \in TypeNames : call_resolve_typename(n)

SpecType == Init /\ [][NextType]_vars

\* The foreign type name the claim gives a native type name.
ForeignName(name) == IF name = <<"int">> THEN <<"i32">> ELSE name

\* C7: resolve_typename follows two levels of typedefs before it consults
\* the native-type table (typedefs A -> B and B -> int give "i32" for A);
\* a name that is no typedef and no native type is returned unchanged;
\* and whenever the name returned is the name given, the warning is logged
\* and no exception is raised.
C7_TypenameChained ==
    call.op = "resolve_typename" =>
        LET old == call.arg
        IN  /\ \A m \in TypeNames, n \in TypeNames :
                  ( /\ Has(typedefs_dict, old) /\ Get(typedefs_dict, old) = PyStr(m)
                    /\ Has(typedefs_dict, m) /\ Get(typedefs_dict, m) = PyStr(n)
                    /\ ~Has(typedefs_dict, n) )
                  => (exc = NoExc /\ ret.v = PyStr(ForeignName(n)))
            /\ (~Has(typedefs_dict, old) /\ ForeignName(old) = old)
                  => (exc = NoExc /\ ret.v = PyStr(old))
            /\ exc = NoExc => (ret.warning <=> ret.v = PyStr(old))

\* typedef B A; typedef int B; and resolve_typename("A") returned "i32".
C7_Witness ==
    /\ call.op = "resolve_typename" /\ call.arg = <<"A">>
    /\ Has(typedefs_dict, <<"A">>) /\ Get(typedefs_dict, <<"A">>) = PyStr(<<"B">>)
    /\ Has(typedefs_dict, <<"B">>) /\ Get(typedefs_dict, <<"B">>) = PyStr(<<"int">>)
    /\ ret.v = PyStr(<<"i32">>)
    /\ ~ret.warning

----------------------------------------------------------------------------
(* Mouse events fed to the detector *)

MaxTime == 6

\* Events at clock readings that never go back.
NextClick ==
    \E b \in Buttons, a \in {PRESS, RELEASE}, t \in now..MaxTime : process(b, a, t)

SpecClick == Init /\ [][NextClick]_vars

\* C8: of the left-button presses, the first returns false; a press less
\* than the interval after a press that returned false returns true; a
\* press the interval or more after the press before it returns false
\* (and, having returned false, is what the next press is measured from).
C8_DoubleClick ==
    [][ (call'.op = "process" /\ call'.arg = <<MOUSE_BUTTON_LEFT, PRESS>>) =>
          LET before == last_press[MOUSE_BUTTON_LEFT]
          IN  /\ before.t = "None" => ret' = PyBool(FALSE)
              /\ ( /\ before.t = "press"
                   /\ ~before.result
                   /\ now' - before.time < DOUBLE_CLICK_INTERVAL ) => ret' = PyBool(TRUE)
              /\ ( /\ before.t = "press"
                   /\ now' - before.time >= DOUBLE_CLICK_INTERVAL ) => ret' = PyBool(FALSE) ]_vars

\* A left press reported a double click just under three intervals after
\* the start: the press before it was two intervals or more after the
\* start and had returned false.
C8_Witness ==
    /\ call.op = "process" /\ call.arg = <<MOUSE_BUTTON_LEFT, PRESS>>
    /\ ret = PyBool(TRUE)
    /\ now = 3 * DOUBLE_CLICK_INTERVAL - 1
    /\ double_clicks[MOUSE_BUTTON_LEFT] = PyNone

----------------------------------------------------------------------------
\* Whether member i of an enum block has neither a value nor shift operands.
Implicit(member) ==
    member.value = Absent /\ member.bit_lshift_a = Absent /\ member.bit_lshift_b = Absent

\* C1: after parse_enums has recorded a block, every member of the block
\* that has neither an explicit value nor shift operands holds the value of
\* the member before it plus 1, and 0 when it is the block's first member.
C1_ImplicitMemberCounts ==
    (call.op = "parse_enums" /\ exc = NoExc) =>
        \A b \in DOMAIN call.arg :
            LET enum == call.arg[b]
                members == Get(enums_dict, enum.name)
            IN  \A i \in DOMAIN enum.members :
                    Implicit(enum.members[i]) =>
                        members[i].v = PyInt(IF i = 1 THEN 0 ELSE members[i - 1].v.i + 1)

====
